---- MODULE Spec2Model ----
(***************************************************************************)
(* partition_voronoi: 1-D Voronoi partition of a list of numbers with      *)
(* optional Lloyd relaxation.                                              *)
(*                                                                         *)
(* Numbers.  The code computes in numpy float64 (arr = np.array(values,    *)
(* dtype=float)).  The model keeps the structure of binary floating point  *)
(* at a reduced width: a number is an integer count of quanta of size      *)
(* 2^-FracBits, and it is a float when it has at most MantBits significant *)
(* bits.  Every arithmetic operation of the code is the exact operation    *)
(* followed by rounding to the nearest float, ties to the even significand *)
(* (IEEE 754 round-to-nearest-even).  float64 is MantBits = 53.            *)
(*                                                                         *)
(* Library calls are modelled by what numpy and random compute:            *)
(* np.linspace (i * step), np.quantile with its default linear method      *)
(* (virtual index (n-1)*q, _lerp), argmin (first minimum), mean (pairwise  *)
(* sum divided by the count), random.uniform (a + (b-a) * random()).       *)
(*                                                                         *)
(* Indices.  Python indexes seeds and clusters 0..n_seeds-1; the model     *)
(* uses 1..n_seeds, so "cluster 0" of the code is clusters[1] here.        *)
(***************************************************************************)
EXTENDS Integers, Sequences, FiniteSets, TLC

\* ---------------------------------------------------------------- bounds
MantBits == 5
FracBits == 7
MaxLen == 3
MaxSeeds == 2
MaxIters == 2

\* ------------------------------------------------------- float arithmetic
Pow2(n) == 2 ^ n

\* the float 1.0 in quanta
One == Pow2(FracBits)

\* the number of an integer literal
Num(i) == i * One

Abs(x) == IF x < 0 THEN -x ELSE x

\* n/d (n >= 0, d > 0) rounded to the nearest integer, ties to even
RoundHalfEven(n, d) ==
  LET q == n \div d
      r == n % d
  IN  IF 2 * r < d THEN q
      ELSE IF 2 * r > d THEN q + 1
      ELSE IF q % 2 = 0 THEN q ELSE q + 1

\* the binary exponent (in quanta) at which the integer part f has at most
\* MantBits significant bits
RECURSIVE ExpOf(_, _)
ExpOf(f, j) == IF f < Pow2(MantBits + j) THEN j ELSE ExpOf(f, j + 1)

\* the exact rational n/d quanta (d > 0) rounded to the nearest float
Rnd(n, d) ==
  LET a == Abs(n)
      step == Pow2(ExpOf(a \div d, 0))
      m == RoundHalfEven(a, d * step) * step
  IN  IF n < 0 THEN -m ELSE m

IsFloat(x) == Rnd(x, 1) = x

FAdd(a, b) == Rnd(a + b, 1)
FSub(a, b) == Rnd(a - b, 1)
FMul(a, b) == Rnd(a * b, One)
\* a float divided by the integer count n
FDivInt(a, n) == Rnd(a, n)
\* the quotient of two integers as a float
FQuot(i, n) == Rnd(i * One, n)

\* --------------------------------------------------------------- helpers
Range(s) == {s[i] : i \in 1..Len(s)}

RECURSIVE Insert(_, _)
Insert(x, s) ==
  IF s = <<>> THEN <<x>>
  ELSE IF x <= Head(s) THEN <<x>> \o s
  ELSE <<Head(s)>> \o Insert(x, Tail(s))

\* np.sort
RECURSIVE Sort(_)
Sort(s) == IF s = <<>> THEN <<>> ELSE Insert(Head(s), Sort(Tail(s)))

SeqMin(s) == CHOOSE x \in Range(s) : \A y \in Range(s) : x <= y
SeqMax(s) == CHOOSE x \in Range(s) : \A y \in Range(s) : x >= y

\* np.array(values, dtype=float): every element converted to a float
ToArr(vals) == [i \in 1..Len(vals) |-> Rnd(vals[i], 1)]

\* ------------------------------------------------------ seed initialization
\* np.linspace(0, 1, n + 2)[1:-1]: step = 1/(n + 1), point i is i * step
Probs(n) == [i \in 1..n |-> FMul(Num(i), FQuot(1, n + 1))]

\* numpy _lerp(a, b, t)
Lerp(a, b, t) ==
  LET diff_b_a == FSub(b, a)
  IN  IF 2 * t >= One
      THEN FSub(b, FMul(diff_b_a, FSub(One, t)))
      ELSE FAdd(a, FMul(diff_b_a, t))

\* np.quantile(sorted_vals, p), method "linear": virtual index (n - 1) * p,
\* previous = floor, next = previous + 1, gamma = virtual - previous; a
\* virtual index at or above n - 1 takes the last element for both
Quantile(sorted_vals, p) ==
  LET n == Len(sorted_vals)
      virtual == FMul(Num(n - 1), p)
      above == virtual >= Num(n - 1)
      previous == IF above THEN -1 ELSE virtual \div One
      gamma == FSub(virtual, Num(previous))
      a == IF above THEN sorted_vals[n] ELSE sorted_vals[previous + 1]
      b == IF above THEN sorted_vals[n] ELSE sorted_vals[previous + 2]
  IN  Lerp(a, b, gamma)

\* variant of QuantileSeeds: the quantiles read off the unsorted array
QuantileSeedsUnsorted(a, n) ==
  LET probs == Probs(n)
  IN  [i \in 1..n |-> Quantile(a, probs[i])]

\* sorted_vals = np.sort(arr); seeds = np.quantile(sorted_vals, probs)
QuantileSeeds(a, n) ==
  LET sorted_vals == Sort(a)
      probs == Probs(n)
  IN  [i \in 1..n |-> Quantile(sorted_vals, probs[i])]

\* random.uniform(lo, hi) = lo + (hi - lo) * random(), r the draw of random()
Uniform(lo, hi, r) == FAdd(lo, FMul(FSub(hi, lo), r))

RandomSeeds(a, n, draws) ==
  LET lo == SeqMin(a)
      hi == SeqMax(a)
  IN  [i \in 1..n |-> Uniform(lo, hi, draws[i])]

\* ------------------------------------------------------------ assignment
\* np.abs(arr[:, None] - seeds[None, :]) at one cell
Dist(v, s) == Abs(FSub(v, s))

\* argmin over seed indices k..n given the best index so far: the first
\* minimum wins, a later seed replaces it only when strictly nearer
RECURSIVE ArgMinFrom(_, _, _, _)
ArgMinFrom(v, sds, k, best) ==
  IF k > Len(sds) THEN best
  ELSE ArgMinFrom(v, sds, k + 1,
                  IF Dist(v, sds[k]) < Dist(v, sds[best]) THEN k ELSE best)

\* variant of ArgMin: the last minimum wins
RECURSIVE ArgMinLastFrom(_, _, _, _)
ArgMinLastFrom(v, sds, k, best) ==
  IF k > Len(sds) THEN best
  ELSE ArgMinLastFrom(v, sds, k + 1,
                      IF Dist(v, sds[k]) <= Dist(v, sds[best]) THEN k ELSE best)

ArgMinLast(v, sds) == ArgMinLastFrom(v, sds, 2, 1)

ArgMin(v, sds) == ArgMinFrom(v, sds, 2, 1)

\* idx = np.abs(...).argmin(axis=1), rows 1..i
RECURSIVE AssignUpTo(_, _, _)
AssignUpTo(a, sds, i) ==
  IF i = 0 THEN <<>> ELSE Append(AssignUpTo(a, sds, i - 1), ArgMin(a[i], sds))

Assign(a, sds) == AssignUpTo(a, sds, Len(a))

\* arr[idx == s] over the rows 1..i
RECURSIVE MembersUpTo(_, _, _, _)
MembersUpTo(a, ix, s, i) ==
  IF i = 0 THEN <<>>
  ELSE IF ix[i] = s THEN Append(MembersUpTo(a, ix, s, i - 1), a[i])
  ELSE MembersUpTo(a, ix, s, i - 1)

\* arr[idx == s]
Members(a, ix, s) == MembersUpTo(a, ix, s, Len(a))

\* ------------------------------------------------------------------ mean
RECURSIVE SumFrom(_, _, _)
SumFrom(a, i, res) == IF i > Len(a) THEN res ELSE SumFrom(a, i + 1, FAdd(res, a[i]))

\* one of the 8 accumulators of numpy's pairwise sum: res plus the elements
\* i, i + 8, ... up to index nb
RECURSIVE AccFrom(_, _, _, _)
AccFrom(a, i, nb, res) ==
  IF i > nb THEN res ELSE AccFrom(a, i + 8, nb, FAdd(res, a[i]))

\* np.add.reduce over a contiguous float array (at most 128 elements):
\* below 8 elements a running sum, otherwise 8 interleaved accumulators over
\* the whole blocks of 8, combined pairwise, then the remainder added one by
\* one
NpSum(a) ==
  LET n == Len(a)
      nb == n - (n % 8)
      r(j) == AccFrom(a, j + 8, nb, a[j])
  IN  IF n < 8 THEN SumFrom(a, 1, 0)
      ELSE SumFrom(a, nb + 1,
                   FAdd(FAdd(FAdd(r(1), r(2)), FAdd(r(3), r(4))),
                        FAdd(FAdd(r(5), r(6)), FAdd(r(7), r(8)))))

\* members.mean()
Mean(m) == FDivInt(NpSum(m), Len(m))

\* ------------------------------------------------------- Lloyd relaxation
\* new_seeds[0..s-1] after the iterations 0..s-1 of for s in range(n_seeds),
\* copy being the array new_seeds starts from
RECURSIVE SeedsUpTo(_, _, _, _)
SeedsUpTo(a, copy, ix, s) ==
  IF s = 0 THEN <<>>
  ELSE Append(SeedsUpTo(a, copy, ix, s - 1),
              LET members == Members(a, ix, s)
              IN  IF Len(members) > 0 THEN Mean(members) ELSE copy[s])

\* variant of NewSeeds: new_seeds starts from zeros instead of seeds.copy()
NewSeedsFromZeros(a, sds) ==
  SeedsUpTo(a, [s \in 1..Len(sds) |-> 0], Assign(a, sds), Len(sds))

\* one pass: the assignment from the seeds at the start of the pass, then
\* every seed with members moved to their mean (new_seeds = seeds.copy())
NewSeeds(a, sds) == SeedsUpTo(a, sds, Assign(a, sds), Len(sds))

\* variants of Moved: always set; set by the first seed only
MovedAlways(a, sds) == TRUE

MovedFirstSeed(a, sds) ==
  LET members == Members(a, Assign(a, sds), 1)
  IN  Len(members) > 0 /\ Mean(members) # sds[1]

\* moved: some seed with members got a position different from its old one
Moved(a, sds) ==
  LET ix == Assign(a, sds)
  IN  \E s \in 1..Len(sds) :
         LET members == Members(a, ix, s)
         IN  Len(members) > 0 /\ Mean(members) # sds[s]

\* the whole loop for _ in range(budget) from the seeds sds: the seeds after
\* it, and the number of passes it runs
RECURSIVE Relax(_, _, _)
Relax(a, sds, budget) ==
  IF budget <= 0 THEN sds
  ELSE LET new_seeds == NewSeeds(a, sds)
       IN  IF Moved(a, sds) THEN Relax(a, new_seeds, budget - 1) ELSE new_seeds

\* ------------------------------------------------------- final partition
\* clusters[int(k)].append(val) for val, k in zip(values, idx), over the
\* first i values
\* variants of AppendTo: assignment instead of append, insertion in front
AppendToOverwrite(c, k, val) == [c EXCEPT ![k] = <<val>>]

AppendToFront(c, k, val) == [c EXCEPT ![k] = <<val>> \o @]

\* clusters[int(k)].append(val)
AppendTo(c, k, val) == [c EXCEPT ![k] = Append(@, val)]

\* variant of EmptyClusters: range(n - 1)
EmptyClustersShort(n) == [k \in 1..(n - 1) |-> <<>>]

\* [[] for _ in range(n)]
EmptyClusters(n) == [k \in 1..n |-> <<>>]

RECURSIVE BuildClusters(_, _, _, _)
BuildClusters(vals, ix, n, i) ==
  IF i = 0 THEN EmptyClusters(n)
  ELSE AppendTo(BuildClusters(vals, ix, n, i - 1), ix[i], vals[i])

\* ---------------------------------------------------------------- inputs
\* the usage example: values 0, 1, ..., 9, 3 seeds, 10 iterations
ExampleValues == [i \in 1..10 |-> Num(i - 1)]
ExampleSeeds == 3
ExampleIters == 10

\* numbers a value list is drawn from: 1, 11, and 33 (33 has more than
\* MantBits significant bits at MantBits = 5, as 2^53 + 1 has in float64)
Vals == {Num(1), Num(11), Num(33)}

RECURSIVE SeqsUpTo(_, _)
SeqsUpTo(S, n) ==
  IF n = 0 THEN {<<>>}
  ELSE LET shorter == SeqsUpTo(S, n - 1)
       IN  shorter \cup {Append(s, x) : s \in {t \in shorter : Len(t) = n - 1}, x \in S}

ValueLists == SeqsUpTo(Vals, MaxLen) \cup {ExampleValues}
SeedCounts == ((-1)..MaxSeeds) \cup {ExampleSeeds}
IterBudgets == (0..MaxIters) \cup {ExampleIters}
InitMethods == {"quantile", "random"}

\* results of random.random(): floats in [0, 1)
RandDraws == {0, One \div 4, One \div 2, 3 * (One \div 4)}

\* ----------------------------------------------------------------- state
VARIABLES values, n_seeds, lloyd_iters, init_method,
          pc, arr, seeds, passes, moved, idx, clusters, seeds0

vars == <<values, n_seeds, lloyd_iters, init_method,
          pc, arr, seeds, passes, moved, idx, clusters, seeds0>>

\* seeds0 records the seeds as initialized, before the first pass
args == <<values, n_seeds, lloyd_iters, init_method>>

Init ==
  /\ values \in ValueLists
  /\ n_seeds \in SeedCounts
  /\ lloyd_iters \in IterBudgets
  /\ init_method \in InitMethods
  /\ pc = "call"
  /\ arr = <<>>
  /\ seeds = <<>>
  /\ passes = 0
  /\ moved = FALSE
  /\ idx = <<>>
  /\ clusters = <<>>
  /\ seeds0 = <<>>

\* variant of SeedCountInvalid: n_seeds < 0
SeedCountNegative(n) == n < 0

\* if n_seeds <= 0
SeedCountInvalid(n) == n <= 0

\* if n_seeds <= 0: raise ValueError
RaiseValueError ==
  /\ pc = "call"
  /\ SeedCountInvalid(n_seeds)
  /\ pc' = "raised"
  /\ UNCHANGED <<args, arr, seeds, passes, moved, idx, clusters, seeds0>>

\* if len(values) == 0: return [[] for _ in range(n_seeds)], np.array([])
ReturnEmpty ==
  /\ pc = "call"
  /\ ~SeedCountInvalid(n_seeds)
  /\ Len(values) = 0
  /\ clusters' = EmptyClusters(n_seeds)
  /\ seeds' = <<>>
  /\ pc' = "returned"
  /\ UNCHANGED <<args, arr, passes, moved, idx, seeds0>>

\* arr = np.array(values, dtype=float); seeds by quantiles
InitQuantile ==
  /\ pc = "call"
  /\ ~SeedCountInvalid(n_seeds)
  /\ Len(values) # 0
  /\ init_method = "quantile"
  /\ arr' = ToArr(values)
  /\ seeds' = QuantileSeeds(arr', n_seeds)
  /\ seeds0' = seeds'
  /\ pc' = "lloyd"
  /\ UNCHANGED <<args, passes, moved, idx, clusters>>

\* arr = np.array(values, dtype=float); seeds drawn in [min, max]
InitRandom ==
  /\ pc = "call"
  /\ ~SeedCountInvalid(n_seeds)
  /\ Len(values) # 0
  /\ init_method # "quantile"
  /\ arr' = ToArr(values)
  /\ \E draws \in [1..n_seeds -> RandDraws] :
        seeds' = RandomSeeds(arr', n_seeds, draws)
  /\ seeds0' = seeds'
  /\ pc' = "lloyd"
  /\ UNCHANGED <<args, passes, moved, idx, clusters>>

\* one iteration of for _ in range(int(lloyd_iters)), with its break
LloydPass ==
  /\ pc = "lloyd"
  /\ passes < lloyd_iters
  /\ idx' = Assign(arr, seeds)
  /\ seeds' = NewSeeds(arr, seeds)
  /\ moved' = Moved(arr, seeds)
  /\ passes' = passes + 1
  /\ pc' = IF moved' THEN "lloyd" ELSE "final"
  /\ UNCHANGED <<args, arr, clusters, seeds0>>

\* the range of the loop is exhausted
LloydDone ==
  /\ pc = "lloyd"
  /\ passes >= lloyd_iters
  /\ pc' = "final"
  /\ UNCHANGED <<args, arr, seeds, passes, moved, idx, clusters, seeds0>>

\* the final assignment, the clusters, return clusters, seeds
FinalPartition ==
  /\ pc = "final"
  /\ idx' = Assign(arr, seeds)
  /\ clusters' = BuildClusters(values, idx', n_seeds, Len(values))
  /\ pc' = "returned"
  /\ UNCHANGED <<args, arr, seeds, passes, moved, seeds0>>

Next ==
  \/ RaiseValueError
  \/ ReturnEmpty
  \/ InitQuantile
  \/ InitRandom
  \/ LloydPass
  \/ LloydDone
  \/ FinalPartition

Spec == Init /\ [][Next]_vars

\* ================================================================ claims
CountIn(s, x) == Cardinality({i \in 1..Len(s) : s[i] = x})

RECURSIVE Concat(_, _)
Concat(cs, k) == IF k = 0 THEN <<>> ELSE Concat(cs, k - 1) \o cs[k]

NonEmptyClusters == {k \in 1..Len(clusters) : clusters[k] # <<>>}

Min2(a, b) == IF a <= b THEN a ELSE b

\* C1: with n_seeds >= 1 the call never raises; what it
\* returns is a list of exactly n_seeds clusters whose concatenation holds
\* every input value as many times as the input does, so at most
\* min(n_seeds, len(values)) clusters are non-empty.
C1_ClustersPartitionInput ==
  /\ (n_seeds >= 1 => pc # "raised")
  /\ (pc = "returned" =>
        /\ Len(clusters) = n_seeds
        /\ LET all == Concat(clusters, n_seeds)
           IN  /\ Len(all) = Len(values)
               /\ \A x \in Range(values) \cup Range(all) :
                     CountIn(all, x) = CountIn(values, x)
        /\ Cardinality(NonEmptyClusters) <= Min2(n_seeds, Len(values)))

C1_Witness ==
  /\ pc = "returned"
  /\ n_seeds > Len(values)
  /\ Len(values) >= 2
  /\ values[1] = values[2]
  /\ passes >= 1

C3_InvalidSeedCountRaises ==
  /\ [](n_seeds <= 0 =>
          /\ pc \in {"call", "raised"}
          /\ arr = <<>> /\ seeds = <<>> /\ clusters = <<>> /\ passes = 0)
  /\ [][(pc = "call" /\ n_seeds <= 0) => pc' = "raised"]_vars

C3_Witness ==
  /\ pc = "raised"
  /\ values = <<>>
  /\ n_seeds = 0
  /\ lloyd_iters > 0

C5_SeedsLengthIsSeedCount ==
  pc = "returned" => (Len(seeds) = n_seeds /\ Len(seeds) = Len(clusters))

\* the input positions assigned to cluster k
Positions(k) == {i \in 1..Len(idx) : idx[i] = k}

\* the p-th smallest element of a set of positions
Nth(S, p) == CHOOSE i \in S : Cardinality({j \in S : j < i}) = p - 1

\* C6: every returned cluster is the subsequence of the input at the
\* positions assigned to it: its p-th member is the original input value
\* (not its float) at the p-th smallest such position.
C6_ClustersAreSubsequences ==
  (pc = "returned" /\ Len(values) > 0) =>
     \A k \in 1..n_seeds :
        /\ Len(clusters[k]) = Cardinality(Positions(k))
        /\ \A p \in 1..Len(clusters[k]) : clusters[k][p] = values[Nth(Positions(k), p)]

\* a cluster with two different members taken from positions that are not
\* adjacent, one of them not a float
C6_Witness ==
  /\ pc = "returned"
  /\ \E k \in 1..n_seeds :
        /\ Len(clusters[k]) = 2
        /\ clusters[k][1] # clusters[k][2]
        /\ ~IsFloat(clusters[k][1])
        /\ Positions(k) = {1, 3}

AllSame(vs) == \A i \in 1..Len(vs) : vs[i] = vs[1]

\* C7 (as claimed): with all input values identical and random
\* initialization the call does not raise, every returned seed equals (the
\* float of) that value, all values are in the first cluster and every other
\* cluster is empty, whatever n_seeds >= 1 and lloyd_iters.
C7_IdenticalValuesFirstCluster ==
  (Len(values) > 0 /\ AllSame(values) /\ init_method = "random" /\ n_seeds >= 1) =>
     /\ pc # "raised"
     /\ pc = "returned" =>
           /\ \A k \in 1..n_seeds : seeds[k] = Rnd(values[1], 1)
           /\ clusters[1] = values
           /\ \A k \in 2..n_seeds : clusters[k] = <<>>

IsExampleCall ==
  /\ values = ExampleValues
  /\ n_seeds = ExampleSeeds
  /\ lloyd_iters = ExampleIters
  /\ init_method = "quantile"

\* the numbers 1.5, 4.5, 7.5 and 1.5, 5, 8
EvenSplitCentroids == <<3 * (One \div 2), 9 * (One \div 2), 15 * (One \div 2)>>
ExampleFixedPoint == <<3 * (One \div 2), Num(5), Num(8)>>

\* clusters are bands: no value of another cluster lies strictly between two
\* members of a cluster, and no cluster is empty
ContiguousBands ==
  /\ \A k \in 1..n_seeds : clusters[k] # <<>>
  /\ \A k \in 1..n_seeds : \A j \in (1..n_seeds) \ {k} :
        \A a \in Range(clusters[k]) : \A c \in Range(clusters[k]) :
           \A b \in Range(clusters[j]) : ~(a < b /\ b < c)

\* C8: the example call (values 0..9, 3 seeds, 10 iterations, quantile) leaves
\* its loop by convergence, after a pass that moved no seed and within the 10
\* passes; the returned seeds are 1.5, 4.5, 7.5 or a stable nearby partition
\* (each seed within 1/2 of these) into three contiguous bands; every input
\* value is in exactly one cluster.  The seeds reached are 1.5, 5, 8.
C8_ExampleConvergesToThreeBands ==
  (IsExampleCall /\ pc \in {"final", "returned"}) =>
     /\ ~moved /\ passes >= 1 /\ passes <= ExampleIters
     /\ pc = "returned" =>
           /\ \/ seeds = EvenSplitCentroids
              \/ /\ NewSeeds(arr, seeds) = seeds
                 /\ Assign(arr, seeds) = idx
                 /\ \A k \in 1..n_seeds :
                       2 * Abs(seeds[k] - EvenSplitCentroids[k]) <= One
                 /\ ContiguousBands
           /\ seeds = ExampleFixedPoint
           /\ LET all == Concat(clusters, n_seeds)
              IN  /\ Len(all) = Len(values)
                  /\ \A x \in Range(values) : CountIn(all, x) = 1

C8_Witness == IsExampleCall /\ pc = "returned" /\ passes = 3

\* the nearest seed of v, the lowest index among the nearest
Nearest(v, sds) ==
  CHOOSE k \in 1..Len(sds) :
     /\ \A j \in 1..Len(sds) : Dist(v, sds[k]) <= Dist(v, sds[j])
     /\ \A j \in 1..(k - 1) : Dist(v, sds[j]) > Dist(v, sds[k])

\* the positions of arr whose nearest seed among sds is s
Region(sds, s) == {i \in 1..Len(arr) : Nearest(arr[i], sds) = s}

\* the elements of arr at the positions S, in position order
ArrAt(S) == [p \in 1..Cardinality(S) |-> arr[Nth(S, p)]]

\* C9: a Lloyd pass assigns every value once, by the seeds at the start of the
\* pass; it sets every seed that has assigned values to the mean (as
\* members.mean() computes it) of exactly those values and leaves every seed
\* without assigned values where it was; the number of seeds does not change.
C9_PassMovesSeedsToMeans ==
  [][(pc = "lloyd" /\ passes' = passes + 1) =>
       /\ Len(seeds') = n_seeds
       /\ \A s \in 1..n_seeds :
             LET region == Region(seeds, s)
             IN  /\ region = {i \in 1..Len(arr) : idx'[i] = s}
                 /\ seeds'[s] = IF region = {} THEN seeds[s] ELSE Mean(ArrAt(region))]_vars

\* after a pass in which one seed moved and another, not at 0, had no value
C9_Witness ==
  /\ pc \in {"lloyd", "final"}
  /\ passes >= 1
  /\ moved
  /\ \E s \in 1..n_seeds : Positions(s) = {} /\ seeds[s] # 0

Converged == pc \in {"final", "returned"} /\ passes >= 1 /\ ~moved

ExtraPasses == 2

\* C10: the loop runs at most lloyd_iters passes, none when lloyd_iters = 0;
\* a pass is followed by another one exactly when it changed some seed, so the
\* loop stops right after the first pass that changed none; the seeds it then
\* has are a fixed point of the pass (one more pass returns the same seeds
\* and reports no move, hence so does any number of passes), and the loop
\* run with a larger budget from the same initial seeds ends with the same
\* seeds.
C10_ConvergenceIsFixedPoint ==
  /\ [](passes <= lloyd_iters)
  /\ [](pc = "lloyd" /\ passes >= 1 => moved)
  /\ [][(pc = "lloyd" /\ passes' = passes + 1) =>
          /\ moved' = (seeds' # seeds)
          /\ pc' = IF moved' THEN "lloyd" ELSE "final"]_vars
  /\ [](Converged =>
          /\ NewSeeds(arr, seeds) = seeds
          /\ ~Moved(arr, seeds))
  /\ []((Converged /\ pc = "returned") =>
          \A extra \in 1..ExtraPasses :
             Relax(arr, seeds0, lloyd_iters + extra) = seeds)

\* converged before the budget was used up, after seeds had moved
C10_Witness ==
  /\ pc = "returned"
  /\ passes >= 2
  /\ passes < lloyd_iters
  /\ ~moved
  /\ seeds # seeds0

\* ------------------------------------------- inputs of wide dynamic range
\* a number so far from 1 that subtracting 1 from it rounds back to it
\* (2^54 in float64)
Far == Num(Pow2(MantBits + 1))

\* numbers a wide value list is drawn from: 0, 1 and Far
WideVals == {0, Num(1), Far}

WideLists == SeqsUpTo(WideVals, MaxLen + 1)

\* a call of partition_voronoi on a wide value list
InitWide ==
  /\ values \in WideLists
  /\ n_seeds \in SeedCounts
  /\ lloyd_iters \in IterBudgets
  /\ init_method \in InitMethods
  /\ pc = "call"
  /\ arr = <<>>
  /\ seeds = <<>>
  /\ passes = 0
  /\ moved = FALSE
  /\ idx = <<>>
  /\ clusters = <<>>
  /\ seeds0 = <<>>

SpecWide == InitWide /\ [][Next]_vars

\* C11: every returned cluster is a contiguous band of the input in value
\* order: no values a < b < c with a and c in one cluster and b in another,
\* and no value in two clusters.
C11_ClustersAreContiguousBands ==
  pc = "returned" =>
    \A p, q \in 1..Len(clusters) :
       p # q =>
         /\ \A a, c \in Range(clusters[p]) :
               \A b \in Range(clusters[q]) : ~(a < b /\ b < c)
         /\ Range(clusters[p]) \cap Range(clusters[q]) = {}

Sorted(sds) == \A i \in 1..(Len(sds) - 1) : sds[i] <= sds[i + 1]

\* the returned cluster index order follows value order
ClustersInValueOrder ==
  \A i, j \in 1..Len(clusters) :
     i < j => \A x \in Range(clusters[i]) : \A y \in Range(clusters[j]) : x <= y

\* C12: with init_method = "quantile" the seeds are non-decreasing in seed
\* index after initialization and after every Lloyd pass, and in the returned
\* result every value of clusters[i] is <= every value of clusters[j], i < j.
C12_QuantileSeedsStaySorted ==
  init_method = "quantile" =>
    /\ pc \in {"lloyd", "final"} => Sorted(seeds)
    /\ (pc = "returned" /\ Len(values) > 0) => Sorted(seeds) /\ ClustersInValueOrder

\* C12, the initialization alone: with init_method = "quantile" the seeds
\* are non-decreasing in seed index after initialization.
C12_QuantileInitSorted ==
  (init_method = "quantile" /\ pc \in {"lloyd", "final", "returned"} /\ Len(values) > 0)
     => Sorted(seeds0)

\* after quantile initialization of an input that was not in value order,
\* with two seeds at different places
C12_Witness ==
  /\ init_method = "quantile"
  /\ pc = "lloyd"
  /\ passes = 0
  /\ n_seeds >= 2
  /\ seeds0 = seeds
  /\ seeds0[1] < seeds0[2]
  /\ ~Sorted(values)

====
